---------------------------- MODULE Spec2Model ----------------------------
(* Model of dgx-spark/embedding_server.py: the JobQueue that coordinates   *)
(* indexing jobs, and the gpu_lock gate around the embed computation.      *)
(*                                                                         *)
(* The server runs on one asyncio event loop.  A coroutine runs without    *)
(* interruption up to an await that really suspends.  Every JobQueue       *)
(* method takes self.lock, which is free whenever a method starts (no      *)
(* method suspends while holding it: _try_activate awaits nothing), so a   *)
(* whole method is one atomic step.  An action below is one such step.     *)
EXTENDS Integers, Sequences, FiniteSets, TLC

(* ------------------------------ bounds --------------------------------- *)

\* number of register calls explored under Spec
MaxJobs == 3
\* largest max_workers the constructor is given
MaxWorkers == 2
\* largest value of the clock
MaxTime == 1
\* number of register calls explored under SpecRecent
MaxRecentJobs == 11
\* number of failed entries in recent under SpecRecent
MaxFailed == 1
\* number of register calls explored under SpecTimed
MaxTimedJobs == 2
\* number of embed requests in flight at once
MaxRequests == 2
\* number of embed requests that pass validation
MaxEmbedCalls == 3
\* registrations and clock readings when wait times are estimated
MaxEstimateJobs == 1
MaxEstimateTime == 10
\* registrations and accepted embed calls when both run side by side
MaxBothJobs == 1
MaxBothCalls == 2
\* registrations when the ids are drawn from the id space
MaxDrawnJobs == 3

(* --------------------------- program constants ------------------------- *)

\* self.recent = self.recent[:10]
RecentMax == 10
\* Optional[float] = None.  The clock counts from the start of the server;
\* time.time() is never 0.0, so "if job.started_at" is "is not None"
NoTime == -1
\* error: Optional[str] = None
NoError == "None"
\* get_position: -1 = not found
NotFound == -1
\* MAX_BATCH_SIZE = 64
MAX_BATCH_SIZE == 64

(* ------------------------------ state ---------------------------------- *)

VARIABLES
    max_workers,             \* JobQueue.max_workers
    jobs,                    \* JobQueue.jobs: job id -> IndexJob
    queue,                   \* JobQueue.queue: deque of waiting job ids
    active,                  \* JobQueue.active: set of job ids
    recent,                  \* JobQueue.recent: list of IndexJob
    total_chunks_processed,  \* JobQueue.total_chunks_processed
    total_processing_time,   \* JobQueue.total_processing_time
    now,                     \* time.time()
    issued,                  \* number of job ids drawn so far
    term_ok,                 \* per id: complete/fail/cancel calls that returned True
    term_log,                \* ids moved to recent since the last clear, newest first
    gpu_locked,              \* gpu_lock._locked
    gpu_waiters,             \* gpu_lock._waiters: the requests suspended in acquire
    gpu_woken,               \* the waiters whose future release() has set
    pc,                      \* per embed request: where its coroutine stands
    had_to_wait,             \* per embed request: its local had_to_wait
    n_inputs,                \* per embed request: len(request.inputs)
    start_time,              \* per embed request: its local start_time
    stats                    \* the stats dict

queue_vars == <<max_workers, jobs, queue, active, recent, total_chunks_processed,
                total_processing_time, issued, term_ok, term_log>>

embed_vars == <<gpu_locked, gpu_waiters, gpu_woken, pc, had_to_wait, n_inputs,
                start_time, stats>>

vars == <<queue_vars, now, embed_vars>>

\* ids a caller may pass: every id register can return, and one it never returns
IdInputs == 1..(MaxRecentJobs + MaxJobs + 1)

\* total_chunks values of POST /jobs
TotalChunksInputs == {1}

\* current values of POST /jobs/{id}/progress
CurrentInputs == {0, 1, 2}

\* error values of POST /jobs/{id}/fail (the default of the handler)
ErrorInputs == {"Unknown error"}

(* ------------------------------ IndexJob ------------------------------- *)

\* The dataclass.  project and instance_id are labels that no operation
\* reads; they are left out of the record.
IndexJob(job_id, total_chunks, t) ==
    [id |-> job_id, total_chunks |-> total_chunks, current |-> 0,
     status |-> "queued", created_at |-> t, started_at |-> NoTime,
     completed_at |-> NoTime, error |-> NoError]

\* str(uuid.uuid4())[:8] when every draw is fresh: the ids are numbered in
\* the order they are drawn
NewJobId == issued + 1

\* str(uuid.uuid4())[:8] as it is: any value of the id space, here two ids
UuidInputs == {1, 2}

\* del self.jobs[job_id]
DelJob(js, job_id) == [j \in (DOMAIN js) \ {job_id} |-> js[j]]

\* self.queue.remove(job_id): removes the first occurrence
RECURSIVE QueueRemove(_, _)
QueueRemove(q, job_id) ==
    IF q = <<>> THEN <<>>
    ELSE IF Head(q) = job_id THEN Tail(q)
    ELSE <<Head(q)>> \o QueueRemove(Tail(q), job_id)

\* job_id in self.queue
InQueue(q, job_id) == \E i \in 1..Len(q) : q[i] = job_id

\* variant of InsertRecent without the cut to ten entries
InsertRecentUnbounded(rec, job) == <<job>> \o rec

\* self.recent.insert(0, job); self.recent = self.recent[:10]
InsertRecent(rec, job) ==
    SubSeq(<<job>> \o rec, 1, IF Len(rec) + 1 < RecentMax THEN Len(rec) + 1 ELSE RecentMax)

(* --------------------------- _try_activate ----------------------------- *)

\* variant of Activate that does not stamp started_at
Activate_no_stamp(js, job_id, t) == [js EXCEPT ![job_id].status = "active"]

\* the activation of one popped job
Activate(js, job_id, t) ==
    [js EXCEPT ![job_id].status = "active", ![job_id].started_at = t]

\* variant of _try_activate whose capacity test is len(self.active) <= max_workers
RECURSIVE _try_activate_overfill(_, _, _, _, _)
_try_activate_overfill(q, js, act, mw, t) ==
    IF Cardinality(act) <= mw /\ q # <<>>
    THEN LET job_id == Head(q) IN
         IF job_id \in DOMAIN js /\ js[job_id].status = "queued"
         THEN _try_activate_overfill(Tail(q), Activate(js, job_id, t), act \cup {job_id}, mw, t)
         ELSE _try_activate_overfill(Tail(q), js, act, mw, t)
    ELSE [queue |-> q, jobs |-> js, active |-> act]

\* variant of _try_activate that pops from the right end of the deque
RECURSIVE _try_activate_lifo(_, _, _, _, _)
_try_activate_lifo(q, js, act, mw, t) ==
    IF Cardinality(act) < mw /\ q # <<>>
    THEN LET job_id == q[Len(q)]
             rest == SubSeq(q, 1, Len(q) - 1) IN
         IF job_id \in DOMAIN js /\ js[job_id].status = "queued"
         THEN _try_activate_lifo(rest, Activate(js, job_id, t), act \cup {job_id}, mw, t)
         ELSE _try_activate_lifo(rest, js, act, mw, t)
    ELSE [queue |-> q, jobs |-> js, active |-> act]

\* while len(self.active) < self.max_workers and self.queue: popleft ...
RECURSIVE _try_activate(_, _, _, _, _)
_try_activate(q, js, act, mw, t) ==
    IF Cardinality(act) < mw /\ q # <<>>
    THEN LET job_id == Head(q) IN
         IF job_id \in DOMAIN js /\ js[job_id].status = "queued"
         THEN _try_activate(Tail(q), Activate(js, job_id, t), act \cup {job_id}, mw, t)
         ELSE _try_activate(Tail(q), js, act, mw, t)
    ELSE [queue |-> q, jobs |-> js, active |-> act]

(* ----------------------------- queries --------------------------------- *)

\* list(self.queue).index(job_id) + 1
QueueIndex(q, job_id) == CHOOSE i \in 1..Len(q) : q[i] = job_id /\ \A k \in 1..(i - 1) : q[k] # job_id

get_position(job_id) ==
    IF job_id \in active THEN 0
    ELSE IF InQueue(queue, job_id) THEN QueueIndex(queue, job_id)
    ELSE NotFound

\* a float that is the quotient of two integers, kept exact
Quotient(n, d) == [num |-> n, den |-> d]
QuotientPositive(f) == f.num * f.den > 0
QuotientEq(f, g) == f.num * g.den = g.num * f.den

\* the value None of estimate_wait_time
NoEstimate == Quotient(0, 0)

\* variant of estimate_wait_time that multiplies by the rate
estimate_wait_time_times_rate(position, chunks_ahead) ==
    IF total_processing_time = 0 THEN NoEstimate
    ELSE LET rate == Quotient(total_chunks_processed, total_processing_time)
         IN  IF QuotientPositive(rate)
             THEN Quotient(chunks_ahead * rate.num, rate.den)
             ELSE NoEstimate

\* chunks_ahead / rate is chunks_ahead * rate.den / rate.num
estimate_wait_time(position, chunks_ahead) ==
    IF total_processing_time = 0 THEN NoEstimate
    ELSE LET rate == Quotient(total_chunks_processed, total_processing_time)
         IN  IF QuotientPositive(rate)
             THEN Quotient(chunks_ahead * rate.den, rate.num)
             ELSE NoEstimate

\* IndexJob.to_dict: the stored fields, a key left out being NoTime or
\* NoError, and the two durations derived from them at the time of the read;
\* the rounded rate, eta and percent are left out
to_dict(job) ==
    [id |-> job.id,
     total_chunks |-> job.total_chunks,
     current |-> job.current,
     status |-> job.status,
     created_at |-> job.created_at,
     started_at |-> job.started_at,
     elapsed_seconds |-> IF job.started_at # NoTime THEN now - job.started_at ELSE NoTime,
     completed_at |-> job.completed_at,
     duration_seconds |-> IF job.completed_at # NoTime /\ job.started_at # NoTime
                          THEN job.completed_at - job.started_at ELSE NoTime,
     error |-> job.error]

\* variant of RemainingChunks that counts the whole of every active job
RECURSIVE RemainingChunks_ignores_current(_)
RemainingChunks_ignores_current(ids) ==
    IF ids = {} THEN 0
    ELSE LET j == CHOOSE x \in ids : TRUE
         IN  (IF j \in DOMAIN jobs THEN jobs[j].total_chunks ELSE 0)
             + RemainingChunks_ignores_current(ids \ {j})

\* sum(j.total_chunks - j.current for j in ... self.active if j)
RECURSIVE RemainingChunks(_)
RemainingChunks(ids) ==
    IF ids = {} THEN 0
    ELSE LET j == CHOOSE x \in ids : TRUE
         IN  (IF j \in DOMAIN jobs THEN jobs[j].total_chunks - jobs[j].current ELSE 0)
             + RemainingChunks(ids \ {j})

\* the loop of get_status over enumerate(self.queue), from index i on, with
\* the running value of chunks_ahead
RECURSIVE QueuedJobs(_, _)
QueuedJobs(i, chunks_ahead) ==
    IF i > Len(queue) THEN <<>>
    ELSE LET job_id == queue[i]
         IN  IF job_id \in DOMAIN jobs
             THEN <<[job |-> to_dict(jobs[job_id]),
                     position |-> i,
                     chunks_ahead |-> chunks_ahead,
                     estimated_wait |-> estimate_wait_time(i, chunks_ahead)]>>
                  \o QueuedJobs(i + 1, chunks_ahead + jobs[job_id].total_chunks)
             ELSE QueuedJobs(i + 1, chunks_ahead)

\* get_status: i + 1 of the 0-based enumerate is the 1-based index here
get_status ==
    [active |-> {to_dict(jobs[jid]) : jid \in active \cap DOMAIN jobs},
     queued |-> QueuedJobs(1, RemainingChunks(active)),
     recent |-> [i \in 1..Len(recent) |-> to_dict(recent[i])],
     workers |-> [max |-> max_workers, busy |-> Cardinality(active)]]

\* the body register_job returns for the job it has just registered, read
\* in the state register leaves: job.status and get_position(job.id)
register_job_response(job_id) ==
    LET position == get_position(job_id)
    IN  [job_id |-> job_id,
         status |-> jobs[job_id].status,
         position |-> position,
         message |-> IF position = 0 THEN "active" ELSE "queued at position"]

(* ----------------------------- operations ------------------------------ *)

\* JobQueue.__init__
QueueInit(workers) ==
    /\ max_workers \in workers
    /\ jobs = <<>>
    /\ queue = <<>>
    /\ active = {}
    /\ recent = <<>>
    /\ total_chunks_processed = 0
    /\ total_processing_time = 0
    /\ issued = 0
    /\ term_ok = [j \in IdInputs |-> 0]
    /\ term_log = <<>>

\* the embed requests: slots of coroutines of the handler embed
Requests == 1..MaxRequests

\* the module-level stats dict and gpu_lock = asyncio.Lock()
EmbedInit ==
    /\ gpu_locked = FALSE
    /\ gpu_waiters = <<>>
    /\ gpu_woken = {}
    /\ pc = [r \in Requests |-> "idle"]
    /\ had_to_wait = [r \in Requests |-> FALSE]
    /\ n_inputs = [r \in Requests |-> 0]
    /\ start_time = [r \in Requests |-> 0]
    /\ stats = [requests |-> 0, texts_embedded |-> 0, total_time_ms |-> 0, errors |-> 0,
                queue_waits |-> 0, queue_depth |-> 0]

\* a JobQueue constructed with any capacity
Init == QueueInit(0..MaxWorkers) /\ now = 0 /\ EmbedInit

\* the server as the module constructs it: job_queue = JobQueue(max_workers=1)
InitServer == QueueInit({1}) /\ now = 0 /\ EmbedInit

\* the wall clock advances between two steps of the event loop
Tick ==
    /\ now < MaxTime
    /\ now' = now + 1
    /\ UNCHANGED <<queue_vars, embed_vars>>

\* variant of register that runs under gpu_lock: it waits while an embed
\* request holds the lock or is queued for it
register_under_gpu_lock(total_chunks) ==
    LET job_id == NewJobId
        job == IndexJob(job_id, total_chunks, now)
        a == _try_activate(Append(queue, job_id), (job_id :> job) @@ jobs, active,
                          max_workers, now)
    IN  /\ ~gpu_locked
        /\ gpu_waiters = <<>>
        /\ issued' = issued + 1
        /\ jobs' = a.jobs
        /\ queue' = a.queue
        /\ active' = a.active
        /\ UNCHANGED <<embed_vars, max_workers, recent, total_chunks_processed, total_processing_time,
                       now, term_ok, term_log>>

\* register, given the id that uuid4 draws: self.jobs[job_id] = job replaces
\* whatever the map held under that id
register_drawn(job_id, total_chunks) ==
    LET job == IndexJob(job_id, total_chunks, now)
        a == _try_activate(Append(queue, job_id), (job_id :> job) @@ jobs, active,
                          max_workers, now)
    IN  /\ issued' = issued + 1
        /\ jobs' = a.jobs
        /\ queue' = a.queue
        /\ active' = a.active
        /\ UNCHANGED <<embed_vars, max_workers, recent, total_chunks_processed, total_processing_time,
                       now, term_ok, term_log>>

\* register when the id drawn is fresh
register(total_chunks) == register_drawn(NewJobId, total_chunks)

\* the value update_progress returns: False if job not found/active
update_progress_result(job_id) ==
    ~(job_id \notin DOMAIN jobs \/ jobs[job_id].status # "active")

\* variant of update_progress that tests only that the job is in self.jobs
update_progress_any_status(job_id, current) ==
    IF job_id \notin DOMAIN jobs THEN UNCHANGED vars
    ELSE /\ jobs' = [jobs EXCEPT ![job_id].current = current]
         /\ UNCHANGED <<embed_vars, max_workers, queue, active, recent, total_chunks_processed,
                        total_processing_time, now, issued, term_ok, term_log>>

update_progress(job_id, current) ==
    IF ~update_progress_result(job_id) THEN UNCHANGED vars
    ELSE /\ jobs' = [jobs EXCEPT ![job_id].current = current]
         /\ UNCHANGED <<embed_vars, max_workers, queue, active, recent, total_chunks_processed,
                        total_processing_time, now, issued, term_ok, term_log>>

\* the value complete returns: False if job = self.jobs.get(job_id) is None
complete_result(job_id) == job_id \in DOMAIN jobs

\* variant of complete without del self.jobs[job_id]
complete_keep(job_id) ==
    IF ~complete_result(job_id) THEN UNCHANGED vars
    ELSE
    LET job == [jobs[job_id] EXCEPT !.status = "completed", !.completed_at = now,
                                    !.current = jobs[job_id].total_chunks]
        started == job.started_at # NoTime
        a == _try_activate(queue, jobs, active \ {job_id}, max_workers, now)
    IN  /\ total_chunks_processed' =
               IF started THEN total_chunks_processed + job.total_chunks
               ELSE total_chunks_processed
        /\ total_processing_time' =
               IF started THEN total_processing_time + (job.completed_at - job.started_at)
               ELSE total_processing_time
        /\ recent' = InsertRecent(recent, job)
        /\ jobs' = a.jobs
        /\ queue' = a.queue
        /\ active' = a.active
        /\ term_ok' = [term_ok EXCEPT ![job_id] = @ + 1]
        /\ term_log' = <<job_id>> \o term_log
        /\ UNCHANGED <<embed_vars, max_workers, now, issued>>

complete(job_id) ==
    IF ~complete_result(job_id) THEN UNCHANGED vars
    ELSE
    LET job == [jobs[job_id] EXCEPT !.status = "completed", !.completed_at = now,
                                    !.current = jobs[job_id].total_chunks]
        started == job.started_at # NoTime
        a == _try_activate(queue, DelJob(jobs, job_id), active \ {job_id}, max_workers, now)
    IN  /\ total_chunks_processed' =
               IF started THEN total_chunks_processed + job.total_chunks
               ELSE total_chunks_processed
        /\ total_processing_time' =
               IF started THEN total_processing_time + (job.completed_at - job.started_at)
               ELSE total_processing_time
        /\ recent' = InsertRecent(recent, job)
        /\ jobs' = a.jobs
        /\ queue' = a.queue
        /\ active' = a.active
        /\ term_ok' = [term_ok EXCEPT ![job_id] = @ + 1]
        /\ term_log' = <<job_id>> \o term_log
        /\ UNCHANGED <<embed_vars, max_workers, now, issued>>

\* the value fail returns
fail_result(job_id) == job_id \in DOMAIN jobs

\* variant of fail that adds a started job to the historical rate
fail_counts(job_id, error) ==
    IF ~fail_result(job_id) THEN UNCHANGED vars
    ELSE
    LET job == [jobs[job_id] EXCEPT !.status = "failed", !.completed_at = now,
                                    !.error = error]
        started == job.started_at # NoTime
        a == _try_activate(queue, DelJob(jobs, job_id), active \ {job_id}, max_workers, now)
    IN  /\ total_chunks_processed' =
               IF started THEN total_chunks_processed + job.total_chunks
               ELSE total_chunks_processed
        /\ total_processing_time' =
               IF started THEN total_processing_time + (job.completed_at - job.started_at)
               ELSE total_processing_time
        /\ recent' = InsertRecent(recent, job)
        /\ jobs' = a.jobs
        /\ queue' = a.queue
        /\ active' = a.active
        /\ term_ok' = [term_ok EXCEPT ![job_id] = @ + 1]
        /\ term_log' = <<job_id>> \o term_log
        /\ UNCHANGED <<embed_vars, max_workers, now, issued>>

\* variant of fail without del self.jobs[job_id]
fail_keep(job_id, error) ==
    IF ~fail_result(job_id) THEN UNCHANGED vars
    ELSE
    LET job == [jobs[job_id] EXCEPT !.status = "failed", !.completed_at = now,
                                    !.error = error]
        a == _try_activate(queue, [jobs EXCEPT ![job_id] = job], active \ {job_id},
                           max_workers, now)
    IN  /\ recent' = InsertRecent(recent, job)
        /\ jobs' = a.jobs
        /\ queue' = a.queue
        /\ active' = a.active
        /\ term_ok' = [term_ok EXCEPT ![job_id] = @ + 1]
        /\ term_log' = <<job_id>> \o term_log
        /\ UNCHANGED <<embed_vars, max_workers, total_chunks_processed, total_processing_time,
                       now, issued>>

fail(job_id, error) ==
    IF ~fail_result(job_id) THEN UNCHANGED vars
    ELSE
    LET job == [jobs[job_id] EXCEPT !.status = "failed", !.completed_at = now,
                                    !.error = error]
        a == _try_activate(queue, DelJob(jobs, job_id), active \ {job_id}, max_workers, now)
    IN  /\ recent' = InsertRecent(recent, job)
        /\ jobs' = a.jobs
        /\ queue' = a.queue
        /\ active' = a.active
        /\ term_ok' = [term_ok EXCEPT ![job_id] = @ + 1]
        /\ term_log' = <<job_id>> \o term_log
        /\ UNCHANGED <<embed_vars, max_workers, total_chunks_processed, total_processing_time,
                       now, issued>>

\* the value cancel returns
cancel_result(job_id) == job_id \in DOMAIN jobs

\* variant of cancel without the closing _try_activate
cancel_no_sweep(job_id) ==
    IF ~cancel_result(job_id) THEN UNCHANGED vars
    ELSE
        /\ jobs' = DelJob(jobs, job_id)
        /\ queue' = IF InQueue(queue, job_id) THEN QueueRemove(queue, job_id) ELSE queue
        /\ active' = active \ {job_id}
        /\ term_ok' = [term_ok EXCEPT ![job_id] = @ + 1]
        /\ UNCHANGED <<embed_vars, max_workers, recent, total_chunks_processed, total_processing_time,
                       now, issued, term_log>>

\* variant of cancel without self.active.discard(job_id)
cancel_stays_active(job_id) ==
    IF ~cancel_result(job_id) THEN UNCHANGED vars
    ELSE
    LET q == IF InQueue(queue, job_id) THEN QueueRemove(queue, job_id) ELSE queue
        a == _try_activate(q, DelJob(jobs, job_id), active, max_workers, now)
    IN  /\ jobs' = a.jobs
        /\ queue' = a.queue
        /\ active' = a.active
        /\ term_ok' = [term_ok EXCEPT ![job_id] = @ + 1]
        /\ UNCHANGED <<embed_vars, max_workers, recent, total_chunks_processed, total_processing_time,
                       now, issued, term_log>>

\* variant of cancel that takes an id out of the queue before looking it up
cancel_unchecked(job_id) ==
    LET q == IF InQueue(queue, job_id) THEN QueueRemove(queue, job_id) ELSE queue
        found == job_id \in DOMAIN jobs
        a == _try_activate(q, IF found THEN DelJob(jobs, job_id) ELSE jobs,
                           active \ {job_id}, max_workers, now)
    IN  /\ jobs' = a.jobs
        /\ queue' = a.queue
        /\ active' = a.active
        /\ term_ok' = IF found THEN [term_ok EXCEPT ![job_id] = @ + 1] ELSE term_ok
        /\ UNCHANGED <<embed_vars, max_workers, recent, total_chunks_processed, total_processing_time,
                       now, issued, term_log>>

\* variant of cancel that files the cancelled job in the recent history
cancel_to_recent(job_id) ==
    IF ~cancel_result(job_id) THEN UNCHANGED vars
    ELSE
    LET job == [jobs[job_id] EXCEPT !.status = "cancelled", !.completed_at = now]
        q == IF InQueue(queue, job_id) THEN QueueRemove(queue, job_id) ELSE queue
        a == _try_activate(q, DelJob(jobs, job_id), active \ {job_id}, max_workers, now)
    IN  /\ recent' = InsertRecent(recent, job)
        /\ jobs' = a.jobs
        /\ queue' = a.queue
        /\ active' = a.active
        /\ term_ok' = [term_ok EXCEPT ![job_id] = @ + 1]
        /\ UNCHANGED <<embed_vars, max_workers, total_chunks_processed, total_processing_time,
                       now, issued, term_log>>

cancel(job_id) ==
    IF ~cancel_result(job_id) THEN UNCHANGED vars
    ELSE
    LET q == IF InQueue(queue, job_id) THEN QueueRemove(queue, job_id) ELSE queue
        a == _try_activate(q, DelJob(jobs, job_id), active \ {job_id}, max_workers, now)
    IN  /\ jobs' = a.jobs
        /\ queue' = a.queue
        /\ active' = a.active
        /\ term_ok' = [term_ok EXCEPT ![job_id] = @ + 1]
        /\ UNCHANGED <<embed_vars, max_workers, recent, total_chunks_processed, total_processing_time,
                       now, issued, term_log>>

\* the value clear_recent returns
clear_recent_result == Len(recent)

\* variant of clear_recent that also resets the historical rate
clear_recent_and_rate ==
    /\ recent' = <<>>
    /\ term_log' = <<>>
    /\ total_chunks_processed' = 0
    /\ total_processing_time' = 0
    /\ UNCHANGED <<embed_vars, max_workers, jobs, queue, active, now, issued, term_ok>>

clear_recent ==
    /\ recent' = <<>>
    /\ term_log' = <<>>
    /\ UNCHANGED <<embed_vars, max_workers, jobs, queue, active, total_chunks_processed,
                   total_processing_time, now, issued, term_ok>>

(* ------------------------------- embed --------------------------------- *)

\* len(request.inputs) of POST /embed
BatchInputs == {0, 1, MAX_BATCH_SIZE, MAX_BATCH_SIZE + 1}

\* the kinds of failure of the dispatched computation
ComputeErrors == {"OutOfMemoryError", "Exception"}

\* variant of embed_rejects without the MAX_BATCH_SIZE check
embed_rejects_empty_only(n) == n = 0

\* the two HTTP 400 checks before the lock is looked at
embed_rejects(n) == n = 0 \/ n > MAX_BATCH_SIZE

\* asyncio.Lock.acquire takes the lock at once when it is free and no waiter
\* is ahead; otherwise the caller is appended to the waiters and suspends
LockFree == ~gpu_locked /\ gpu_waiters = <<>>

\* variant of WokenByRelease in which release wakes no waiter
WokenByRelease_nobody(waiters) == {}

\* asyncio.Lock.release: unlock and set the future of the first waiter
WokenByRelease(waiters) == IF waiters = <<>> THEN {} ELSE {Head(waiters)}

\* embed requests that pass validation and have not returned, plus those done
EmbedCalls ==
    stats.requests + stats.errors + Cardinality({r \in Requests : pc[r] # "idle"})

\* variant of embed_enter that dispatches without waiting for gpu_lock
embed_enter_nolock(r, n) ==
    /\ pc[r] = "idle"
    /\ IF embed_rejects(n) THEN UNCHANGED vars
       ELSE /\ start_time' = [start_time EXCEPT ![r] = now]
            /\ n_inputs' = [n_inputs EXCEPT ![r] = n]
            /\ had_to_wait' = [had_to_wait EXCEPT ![r] = gpu_locked]
            /\ stats' = IF gpu_locked
                        THEN [stats EXCEPT !.queue_waits = @ + 1, !.queue_depth = @ + 1]
                        ELSE stats
            /\ gpu_locked' = TRUE
            /\ pc' = [pc EXCEPT ![r] = "computing"]
            /\ UNCHANGED <<queue_vars, now, gpu_waiters, gpu_woken>>

\* embed, from its entry to its first suspension: either inside
\* run_in_executor with the lock held, or inside gpu_lock.acquire
embed_enter(r, n) ==
    /\ pc[r] = "idle"
    /\ IF embed_rejects(n) THEN UNCHANGED vars
       ELSE /\ start_time' = [start_time EXCEPT ![r] = now]
            /\ n_inputs' = [n_inputs EXCEPT ![r] = n]
            /\ had_to_wait' = [had_to_wait EXCEPT ![r] = gpu_locked]
            /\ stats' = IF gpu_locked
                        THEN [stats EXCEPT !.queue_waits = @ + 1, !.queue_depth = @ + 1]
                        ELSE stats
            /\ IF LockFree
               THEN /\ gpu_locked' = TRUE
                    /\ pc' = [pc EXCEPT ![r] = "computing"]
                    /\ UNCHANGED gpu_waiters
               ELSE /\ gpu_waiters' = Append(gpu_waiters, r)
                    /\ pc' = [pc EXCEPT ![r] = "waiting"]
                    /\ UNCHANGED gpu_locked
            /\ UNCHANGED <<queue_vars, now, gpu_woken>>

\* variant of embed_acquired that takes the request out of queue_depth as
\* soon as it has the lock
embed_acquired_leaves_depth(r) ==
    /\ pc[r] = "waiting"
    /\ r \in gpu_woken
    /\ gpu_waiters' = SelectSeq(gpu_waiters, LAMBDA w : w # r)
    /\ gpu_woken' = gpu_woken \ {r}
    /\ gpu_locked' = TRUE
    /\ pc' = [pc EXCEPT ![r] = "computing"]
    /\ stats' = IF had_to_wait[r] THEN [stats EXCEPT !.queue_depth = @ - 1] ELSE stats
    /\ UNCHANGED <<queue_vars, now, had_to_wait, n_inputs, start_time>>

\* a woken waiter resumes inside acquire: it leaves the waiters, takes the
\* lock and dispatches the computation
embed_acquired(r) ==
    /\ pc[r] = "waiting"
    /\ r \in gpu_woken
    /\ gpu_waiters' = SelectSeq(gpu_waiters, LAMBDA w : w # r)
    /\ gpu_woken' = gpu_woken \ {r}
    /\ gpu_locked' = TRUE
    /\ pc' = [pc EXCEPT ![r] = "computing"]
    /\ UNCHANGED <<queue_vars, now, had_to_wait, n_inputs, start_time, stats>>

\* the finally clause
QueueDepthAfter(r, st) ==
    IF had_to_wait[r] THEN [st EXCEPT !.queue_depth = @ - 1] ELSE st

\* do_embed returned: the stats are updated, the lock is released on leaving
\* the async with, the finally clause runs
embed_return(r) ==
    /\ pc[r] = "computing"
    /\ stats' = QueueDepthAfter(r,
                    [stats EXCEPT !.requests = @ + 1,
                                  !.texts_embedded = @ + n_inputs[r],
                                  !.total_time_ms = @ + (now - start_time[r]) * 1000])
    /\ gpu_locked' = FALSE
    /\ gpu_woken' = WokenByRelease(gpu_waiters)
    /\ pc' = [pc EXCEPT ![r] = "idle"]
    /\ UNCHANGED <<queue_vars, now, gpu_waiters, had_to_wait, n_inputs, start_time>>

\* variant of embed_raise in which a raised error leaves gpu_lock held
embed_raise_keeps_lock(r, e) ==
    /\ pc[r] = "computing"
    /\ stats' = QueueDepthAfter(r, [stats EXCEPT !.errors = @ + 1])
    /\ pc' = [pc EXCEPT ![r] = "idle"]
    /\ UNCHANGED <<queue_vars, now, gpu_locked, gpu_woken, gpu_waiters, had_to_wait, n_inputs,
                   start_time>>

\* variant of embed_raise in which a raised error skips the finally clause
embed_raise_no_finally(r, e) ==
    /\ pc[r] = "computing"
    /\ stats' = [stats EXCEPT !.errors = @ + 1]
    /\ gpu_locked' = FALSE
    /\ gpu_woken' = WokenByRelease(gpu_waiters)
    /\ pc' = [pc EXCEPT ![r] = "idle"]
    /\ UNCHANGED <<queue_vars, now, gpu_waiters, had_to_wait, n_inputs, start_time>>

\* do_embed raised: either except clause counts an error and raises an
\* HTTPException (503 or 500), the lock is released, the finally clause runs
embed_raise(r, e) ==
    /\ pc[r] = "computing"
    /\ stats' = QueueDepthAfter(r, [stats EXCEPT !.errors = @ + 1])
    /\ gpu_locked' = FALSE
    /\ gpu_woken' = WokenByRelease(gpu_waiters)
    /\ pc' = [pc EXCEPT ![r] = "idle"]
    /\ UNCHANGED <<queue_vars, now, gpu_waiters, had_to_wait, n_inputs, start_time>>

(* --------------------------- specifications ---------------------------- *)

\* ids the callers of Spec pass: the issued ones and one never issued
CallIds == 1..(MaxJobs + 1)

Register == \E c \in TotalChunksInputs : issued < MaxJobs /\ register(c)
UpdateProgress == \E j \in CallIds, c \in CurrentInputs : update_progress(j, c)
Complete == \E j \in CallIds : complete(j)
Fail == \E j \in CallIds, e \in ErrorInputs : fail(j, e)
Cancel == \E j \in CallIds : cancel(j)
ClearRecent == clear_recent

Next == Register \/ UpdateProgress \/ Complete \/ Fail \/ Cancel \/ ClearRecent

\* Every operation of the JobQueue, in any order, for every max_workers; the
\* calls arrive within one reading of the clock.
Spec == Init /\ [][Next]_vars

\* The same operations against the server as the module constructs it.
SpecServer == InitServer /\ [][Next]_vars

RegisterTimed == \E c \in TotalChunksInputs : issued < MaxTimedJobs /\ register(c)

NextTimed ==
    RegisterTimed \/ UpdateProgress \/ Complete \/ Fail \/ Cancel \/ ClearRecent \/ Tick

\* The same operations with the clock advancing between them.
SpecTimed == Init /\ [][NextTimed]_vars

\* The server as it is constructed, with enough registrations to overflow the recent history; a client registers
\* when no job is waiting, so at most two jobs are live.
NumFailed == Cardinality({i \in 1..Len(recent) : recent[i].status = "failed"})

RegisterRecent ==
    \E c \in TotalChunksInputs : issued < MaxRecentJobs /\ queue = <<>> /\ register(c)
CompleteRecent == \E j \in DOMAIN jobs : complete(j)
FailRecent == \E j \in DOMAIN jobs, e \in ErrorInputs : NumFailed < MaxFailed /\ fail(j, e)

NextRecent == RegisterRecent \/ CompleteRecent \/ FailRecent \/ ClearRecent

SpecRecent == InitServer /\ [][NextRecent]_vars

EmbedEnter == \E r \in Requests, n \in BatchInputs : EmbedCalls < MaxEmbedCalls /\ embed_enter(r, n)
EmbedAcquired == \E r \in Requests : embed_acquired(r)
EmbedReturn == \E r \in Requests : embed_return(r)
EmbedRaise == \E r \in Requests, e \in ComputeErrors : embed_raise(r, e)

NextEmbed == EmbedEnter \/ EmbedAcquired \/ EmbedReturn \/ EmbedRaise \/ Tick

\* Concurrent embed requests against the server as it is constructed.
SpecEmbed == InitServer /\ [][NextEmbed]_vars

RegisterBoth == \E c \in TotalChunksInputs : issued < MaxBothJobs /\ register(c)
EmbedEnterBoth == \E r \in Requests : EmbedCalls < MaxBothCalls /\ embed_enter(r, 1)

NextBoth ==
    \/ RegisterBoth \/ UpdateProgress \/ Complete \/ Fail \/ Cancel \/ ClearRecent
    \/ EmbedEnterBoth \/ EmbedAcquired \/ EmbedReturn \/ EmbedRaise

\* The job-queue operations and the embed requests of one server, interleaved
\* on its event loop.
SpecBoth == InitServer /\ [][NextBoth]_vars

\* total_chunks of the jobs and chunks_ahead of the queries when wait times
\* are estimated
EstimateChunksInputs == {100}
ChunksAheadInputs == {0, 50}

RegisterEstimate ==
    \E c \in EstimateChunksInputs : issued < MaxEstimateJobs /\ register(c)
TickEstimate ==
    /\ now < MaxEstimateTime
    /\ now' = now + 1
    /\ UNCHANGED <<queue_vars, embed_vars>>

NextEstimate == RegisterEstimate \/ Complete \/ Fail \/ Cancel \/ TickEstimate

\* Jobs of 100 chunks that run for up to ten readings of the clock on the
\* server as it is constructed; recent is never cleared.
SpecEstimate == InitServer /\ [][NextEstimate]_vars

RegisterDrawn ==
    \E job_id \in UuidInputs, c \in TotalChunksInputs :
        issued < MaxDrawnJobs /\ register_drawn(job_id, c)

NextDrawn == RegisterDrawn \/ UpdateProgress \/ Complete \/ Fail \/ Cancel \/ ClearRecent

\* The operations of the JobQueue of the server with ids drawn from a small
\* id space, so that a draw can repeat.
SpecDrawn == InitServer /\ [][NextDrawn]_vars

\* total_chunks of jobs of different sizes
ChunkSizeInputs == {1, 3}

RegisterSized == \E c \in ChunkSizeInputs : issued < MaxJobs /\ register(c)

NextSized == RegisterSized \/ UpdateProgress \/ Complete \/ Cancel

\* The operations that change what get_status reports of the live jobs, on
\* jobs of different sizes, for every max_workers.
SpecSized == Init /\ [][NextSized]_vars

\* the client of an active job ends it: complete, fail or cancel
Terminate(j) ==
    /\ j \in active
    /\ \/ complete(j)
       \/ \E e \in ErrorInputs : fail(j, e)
       \/ cancel(j)

NextLive == Register \/ UpdateProgress \/ Complete \/ Fail \/ Cancel

\* The operations of the JobQueue of the server, recent never cleared, where
\* every job that is active is eventually completed, failed or cancelled.
SpecLive ==
    /\ InitServer
    /\ [][NextLive]_vars
    /\ \A j \in CallIds : WF_vars(Terminate(j))

\* the dispatched computation of request r ends, with a result or an error
ComputeEnds(r) == embed_return(r) \/ \E e \in ComputeErrors : embed_raise(r, e)

NextEmbedLive == EmbedEnter \/ EmbedAcquired \/ EmbedReturn \/ EmbedRaise

\* Concurrent embed requests where every dispatched computation ends and
\* the event loop resumes every task whose future is set.
SpecEmbedLive ==
    /\ InitServer
    /\ [][NextEmbedLive]_vars
    /\ \A r \in Requests : WF_vars(ComputeEnds(r))
    /\ \A r \in Requests : WF_vars(embed_acquired(r))

(* ------------------------------- claims -------------------------------- *)

\* job ids are numbered in the order register draws them: a < b says that a
\* was registered before b
Registered == 1..issued
Waiting(j) == j \in DOMAIN jobs /\ jobs[j].status = "queued"
QueueIds == {queue[i] : i \in 1..Len(queue)}
RecentIds == {recent[i].id : i \in 1..Len(recent)}
\* j has been through the activation of _try_activate
Activated(j) ==
    \/ j \in active
    \/ j \in DOMAIN jobs /\ jobs[j].started_at # NoTime
    \/ \E i \in 1..Len(recent) : recent[i].id = j /\ recent[i].started_at # NoTime
InRecentAs(j, status) == \E i \in 1..Len(recent) : recent[i].id = j /\ recent[i].status = status

\* C1: after every operation, for every max_workers >= 0, the active set
\* holds at most max_workers ids.
C1_ActiveWithinCapacity == Cardinality(active) <= max_workers

\* C1 witness: both slots of a two-worker queue are taken and a job waits.
C1_Witness == max_workers = 2 /\ Cardinality(active) = 2 /\ \E j \in Registered : Waiting(j)

\* C2: at most one embed request is in its compute phase (between acquiring
\* gpu_lock and the return of the dispatched computation) at any time.
C2_OneCompute == Cardinality({r \in Requests : pc[r] = "computing"}) <= 1

\* C2 witness: one request computes while another, which found the lock
\* held, is suspended in acquire.
C2_Witness ==
    \E r, w \in Requests : pc[r] = "computing" /\ pc[w] = "waiting" /\ had_to_wait[w]

\* C3: no job id is in two of the wait list, the active set and the recent
\* history at once.
C3_OneCollection ==
    \A j \in IdInputs :
        /\ ~(j \in QueueIds /\ j \in active)
        /\ ~(j \in QueueIds /\ j \in RecentIds)
        /\ ~(j \in active /\ j \in RecentIds)

\* C4: jobs are activated in registration order: a job registered after a
\* job that still waits with status queued has not been activated.
C4_Fifo ==
    \A a, b \in Registered : (a < b /\ Waiting(a)) => ~Activated(b)

\* C4 witness: the first job ran and terminated, the second was activated
\* after it and the third still waits.
C4_Witness ==
    /\ issued >= 3
    /\ \E i \in 1..Len(recent) : recent[i].id = 1 /\ recent[i].started_at # NoTime
    /\ 2 \in active
    /\ Waiting(3)

\* the oldest job that waits with status queued
OldestWaiting == CHOOSE j \in Registered : Waiting(j) /\ \A k \in Registered : Waiting(k) => j <= k

\* with one worker, a step that removes the active job from the live map
\* (complete, fail or cancel of it) while a job waits leaves the oldest
\* waiting job active with started_at set
C5_PromoteHead ==
    (max_workers = 1 /\ (\E a \in active : a \notin DOMAIN jobs')
                     /\ (\E j \in Registered : Waiting(j)))
        => /\ OldestWaiting \in active'
           /\ OldestWaiting \in DOMAIN jobs'
           /\ jobs'[OldestWaiting].status = "active"
           /\ jobs'[OldestWaiting].started_at # NoTime

\* C5: admission is work-conserving: no job has status queued while the
\* active set holds fewer than max_workers jobs, and with max_workers = 1
\* terminating the active job leaves the oldest queued job active with
\* started_at set.
C5_WorkConserving ==
    /\ [](\A j \in Registered : Waiting(j) => Cardinality(active) >= max_workers)
    /\ [][C5_PromoteHead]_vars

\* C5 witness: with one worker the first job was completed while active and
\* the second job now holds the slot, started.
C5_Witness ==
    /\ max_workers = 1
    /\ \E i \in 1..Len(recent) :
           recent[i].id = 1 /\ recent[i].status = "completed" /\ recent[i].started_at # NoTime
    /\ 2 \in active
    /\ jobs[2].started_at # NoTime

\* C6: get_position returns -1 for every id that was never registered and
\* for every id whose job was completed, failed or cancelled.
C6_GonePositionNotFound ==
    \A j \in IdInputs : j \notin DOMAIN jobs => get_position(j) = NotFound

\* C7: for every job with status queued, get_position is 1 plus the number of
\* jobs with status queued registered before it that still wait (so the
\* positions of the queued jobs are 1..k without gaps).
C7_PositionIsRank ==
    \A j \in Registered :
        Waiting(j) => get_position(j) = 1 + Cardinality({k \in Registered : k < j /\ Waiting(k)})

\* C8: a job reaches completed or failed only from active: every job in the
\* recent history was activated (has started_at set) before it terminated.
C8_TerminatedWereActive ==
    \A i \in 1..Len(recent) : recent[i].started_at # NoTime

\* C9: for every job id at most one complete, fail or cancel call returns
\* True, and after it every complete, fail, cancel and update_progress call
\* on that id returns False.
C9_OneTermination ==
    \A j \in IdInputs :
        /\ term_ok[j] <= 1
        /\ term_ok[j] >= 1 =>
               /\ ~complete_result(j)
               /\ ~fail_result(j)
               /\ ~cancel_result(j)
               /\ ~update_progress_result(j)

\* C9 witness: one job was completed, one failed and one cancelled.
C9_Witness ==
    \E a, b, c \in Registered :
        /\ term_ok[a] = 1 /\ InRecentAs(a, "completed")
        /\ term_ok[b] = 1 /\ InRecentAs(b, "failed")
        /\ term_ok[c] = 1 /\ c \notin RecentIds /\ c \notin DOMAIN jobs

\* C10: recent never holds more than 10 entries and holds exactly the
\* min(n, 10) jobs most recently moved to it by complete or fail since the
\* last clear_recent, the newest at index 0.
C10_RecentBounded ==
    /\ Len(recent) <= RecentMax
    /\ Len(recent) = (IF Len(term_log) < RecentMax THEN Len(term_log) ELSE RecentMax)
    /\ \A i \in 1..Len(recent) : recent[i].id = term_log[i]

\* C10 witness: an eleventh job terminated and the oldest entry was evicted.
C10_Witness == Len(term_log) = RecentMax + 1 /\ Len(recent) = RecentMax

\* a cancel(j) step taken while j is active
C11_CancelActiveStep ==
    \A j \in CallIds :
        (j \in active /\ cancel(j)) =>
            /\ cancel_result(j)
            /\ j \notin active'
            /\ j \notin DOMAIN jobs'
            /\ recent' = recent
            /\ j \notin QueueIds'
            /\ j \notin RecentIds'
            /\ (\E k \in Registered : Waiting(k)) =>
                   /\ OldestWaiting \in active'
                   /\ OldestWaiting \in DOMAIN jobs'
                   /\ jobs'[OldestWaiting].status = "active"

\* C11: cancel of an active job removes it from the active set and from the
\* live map, adds nothing to recent and, in the same step, activates the
\* oldest job with status queued if there is one; afterwards the cancelled id
\* is in none of queue, active, jobs and recent.
C11_CancelActive == [][C11_CancelActiveStep]_vars

\* C11 witness: with one worker the first job was cancelled while it held the
\* slot (it is gone without a trace in recent) and the second job, registered
\* behind it, is active.
C11_Witness ==
    /\ max_workers = 1
    /\ term_ok[1] = 1
    /\ 1 \notin DOMAIN jobs
    /\ recent = <<>>
    /\ term_log = <<>>
    /\ 2 \in active
    /\ jobs[2].status = "active"
    /\ Waiting(3)

\* an update_progress(j, c) step
C12_UpdateProgressStep ==
    \A j \in CallIds, c \in CurrentInputs :
        update_progress(j, c) =>
            IF j \in DOMAIN jobs /\ jobs[j].status = "active"
            THEN /\ update_progress_result(j)
                 /\ jobs'[j] = [jobs[j] EXCEPT !.current = c]
                 /\ \A k \in DOMAIN jobs : k # j => jobs'[k] = jobs[k]
                 /\ DOMAIN jobs' = DOMAIN jobs
                 /\ UNCHANGED <<queue, active, recent, total_chunks_processed,
                                total_processing_time>>
            ELSE /\ ~update_progress_result(j)
                 /\ UNCHANGED <<jobs, queue, active, recent, total_chunks_processed,
                                total_processing_time>>

\* C12: update_progress on a job that is queued, completed, failed, cancelled
\* or unknown returns False and changes neither current nor any other state
\* of the queue; it returns True and overwrites current only when the job is
\* active.
C12_UpdateProgressOnlyActive == [][C12_UpdateProgressStep]_vars

\* C12 witness: the active job carries a reported current while a queued job
\* and a terminated job exist, on which update_progress had no effect.
C12_Witness ==
    /\ \E a \in active : jobs[a].current = 2
    /\ \E q \in Registered : Waiting(q) /\ jobs[q].current = 0
    /\ \E t \in Registered : term_ok[t] = 1

\* C13: every job in the live map or in recent has 0 <= current <=
\* total_chunks, after any sequence of register, update_progress, complete
\* and fail calls.
C13_CurrentInRange ==
    /\ \A j \in DOMAIN jobs : 0 <= jobs[j].current /\ jobs[j].current <= jobs[j].total_chunks
    /\ \A i \in 1..Len(recent) :
           0 <= recent[i].current /\ recent[i].current <= recent[i].total_chunks

\* a complete, fail, cancel or update_progress step on an id that is not in
\* the live map
C14_UnknownIdStep ==
    \A j \in CallIds :
        j \notin DOMAIN jobs =>
            /\ ~complete_result(j)
            /\ ~fail_result(j)
            /\ ~cancel_result(j)
            /\ ~update_progress_result(j)
            /\ (\/ complete(j)
                \/ \E e \in ErrorInputs : fail(j, e)
                \/ cancel(j)
                \/ \E c \in CurrentInputs : update_progress(j, c))
                   => UNCHANGED <<jobs, queue, active, recent, total_chunks_processed,
                                  total_processing_time>>

\* C14: complete, fail, cancel and update_progress called with an id that is
\* not in the live map return False (the endpoints answer 404) and change
\* nothing: jobs, queue, active, recent and the two accumulators stay as
\* they are.
C14_UnknownIdNoChange == [][C14_UnknownIdStep]_vars

\* C14 witness: an id that was registered and has left the live map, but is
\* still named by the queue, next to a live active job and a recent entry.
C14_Witness ==
    /\ \E j \in Registered : j \notin DOMAIN jobs /\ j \in QueueIds
    /\ active # {}
    /\ recent # <<>>
    /\ total_chunks_processed > 0

\* C15: every compound transition of the JobQueue is atomic for its
\* observers: in no state that another operation or a status read
\* (get_status, get_position, GET /jobs/{id}) can see is a job both in recent
\* and in the live map, does the live map hold a terminated job, does the
\* active set name a job that is not live and active, or is a slot free while
\* a job waits with status queued.
C15_NoIntermediateState ==
    /\ \A j \in IdInputs : ~(j \in RecentIds /\ j \in DOMAIN jobs)
    /\ \A j \in DOMAIN jobs : jobs[j].status \in {"queued", "active"}
    /\ \A j \in DOMAIN jobs : jobs[j].status = "active" <=> j \in active
    /\ \A j \in active : j \in DOMAIN jobs
    /\ (\E j \in Registered : Waiting(j)) => Cardinality(active) >= max_workers

\* C15 witness: the state right after a relocate-delete-reactivate
\* transition: the first job is in recent as failed, the second took the
\* slot it freed and the third still waits.
C15_Witness ==
    /\ max_workers = 1
    /\ InRecentAs(1, "failed")
    /\ 1 \notin DOMAIN jobs
    /\ 2 \in active
    /\ Waiting(3)

\* an embed call with no input or with more than MAX_BATCH_SIZE inputs
C16_RejectStep ==
    \A r \in Requests, n \in BatchInputs :
        ((n = 0 \/ n > MAX_BATCH_SIZE) /\ embed_enter(r, n)) =>
            UNCHANGED <<stats, gpu_locked, gpu_waiters, gpu_woken, pc, had_to_wait>>

\* C16: an embed request with an empty input list or with more than
\* MAX_BATCH_SIZE inputs is rejected before gpu_lock is tested or acquired:
\* every counter of stats and the state of the lock stay as they are.
C16_RejectBeforeLock == [][C16_RejectStep]_vars

\* C16 witness: the lock is held by a computing request while another
\* request is free to arrive, and no wait has been counted: a rejected call
\* arriving here would have seen gpu_lock.locked().
C16_Witness ==
    /\ gpu_locked
    /\ \E c, r \in Requests : pc[c] = "computing" /\ pc[r] = "idle"
    /\ stats.queue_waits = 0
    /\ stats.queue_depth = 0

\* embed calls between their entry and their return or raise
InFlight == {r \in Requests : pc[r] # "idle"}

\* an accepted embed call that finds the lock held counts one wait and one
\* more in the queue depth; a call that finishes, by return or by raise,
\* takes one from the queue depth if and only if it had counted itself
C17_QueueDepthStep ==
    /\ \A r \in Requests, n \in BatchInputs :
           (n # 0 /\ n <= MAX_BATCH_SIZE /\ gpu_locked /\ embed_enter(r, n)) =>
               /\ stats'.queue_waits = stats.queue_waits + 1
               /\ stats'.queue_depth = stats.queue_depth + 1
               /\ had_to_wait'[r]
    /\ \A r \in Requests :
           (embed_return(r) \/ \E e \in ComputeErrors : embed_raise(r, e)) =>
               /\ stats'.queue_depth = stats.queue_depth - (IF had_to_wait[r] THEN 1 ELSE 0)
               /\ stats'.queue_waits = stats.queue_waits

\* C17: every embed call that finds gpu_lock held on entry adds one to
\* queue_waits and to queue_depth and takes exactly one from queue_depth when
\* it finishes, by success or by failure; so queue_depth counts the calls in
\* flight that found the lock held, is never negative and is 0 whenever no
\* embed call is in flight.
C17_QueueDepthBalanced ==
    /\ [](/\ stats.queue_depth = Cardinality({r \in InFlight : had_to_wait[r]})
          /\ stats.queue_depth >= 0
          /\ InFlight = {} => stats.queue_depth = 0)
    /\ [][C17_QueueDepthStep]_vars

\* C17 witness: two calls found the lock held and two calls raised, so a
\* call that had counted itself finished by failure; no call is in flight
\* and the depth is back at 0.
C17_Witness ==
    /\ InFlight = {}
    /\ stats.queue_waits = 2
    /\ stats.errors = 2
    /\ stats.queue_depth = 0

\* every operation of the JobQueue and the position query can be run
C18_QueueOpsRunnable ==
    /\ \A c \in TotalChunksInputs : ENABLED register(c)
    /\ \A j \in CallIds :
           /\ ENABLED complete(j)
           /\ \A e \in ErrorInputs : ENABLED fail(j, e)
           /\ ENABLED cancel(j)
           /\ \A c \in CurrentInputs : ENABLED update_progress(j, c)
           /\ get_position(j) >= NotFound
    /\ ENABLED clear_recent

\* a step of a JobQueue operation leaves gpu_lock, its waiters and the embed
\* requests as they are
C18_QueueOpStep ==
    \/ UNCHANGED embed_vars
    \/ ~(\/ \E c \in TotalChunksInputs : register(c)
         \/ \E j \in CallIds : \/ complete(j)
                               \/ \E e \in ErrorInputs : fail(j, e)
                               \/ cancel(j)
                               \/ \E c \in CurrentInputs : update_progress(j, c)
         \/ clear_recent)

\* C18: waiting for or holding gpu_lock never blocks the JobQueue: in every
\* state in which an embed request holds gpu_lock or requests wait for it,
\* every JobQueue operation and the position query can run, and no JobQueue
\* operation acquires gpu_lock or changes anything of the embed requests.
C18_LockDoesNotBlockQueue ==
    /\ []((gpu_locked \/ gpu_waiters # <<>>) => C18_QueueOpsRunnable)
    /\ [][C18_QueueOpStep]_vars

\* C18 witness: one request computes under the lock and another waits for
\* it, while the job queue has moved on: the job was registered, activated
\* and completed.
C18_Witness ==
    /\ \E c, w \in Requests : pc[c] = "computing" /\ pc[w] = "waiting"
    /\ gpu_locked
    /\ InRecentAs(1, "completed")
    /\ total_chunks_processed > 0
    /\ active = {}

\* a step in which the dispatched computation raises
C19_FailureStep ==
    \A r \in Requests, e \in ComputeErrors :
        embed_raise(r, e) =>
            /\ stats'.errors = stats.errors + 1
            /\ stats'.requests = stats.requests
            /\ stats'.texts_embedded = stats.texts_embedded
            /\ stats'.total_time_ms = stats.total_time_ms
            /\ ~gpu_locked'
            /\ gpu_waiters # <<>> => Head(gpu_waiters) \in gpu_woken'

\* C19: when the computation fails (out of memory or any other error),
\* errors grows by exactly one, requests, texts_embedded and total_time_ms
\* keep their values and gpu_lock is released: whenever no request computes,
\* the lock is free for the next call or handed to a waiter that can take it.
C19_FailureReleasesLock ==
    /\ []((\A r \in Requests : pc[r] # "computing") =>
             /\ ~gpu_locked
             /\ gpu_waiters # <<>> => ENABLED embed_acquired(Head(gpu_waiters)))
    /\ [][C19_FailureStep]_vars

\* C19 witness: the first call failed while a second call waited behind it;
\* the second call has since acquired the lock and computes.
C19_Witness ==
    /\ stats.errors = 1
    /\ stats.requests = 0
    /\ \E r \in Requests : pc[r] = "computing" /\ had_to_wait[r]
    /\ gpu_locked

\* a job in recent was completed
HasCompletion == \E i \in 1..Len(recent) : recent[i].status = "completed"

\* a job in recent was started and completed at a later reading of the clock
HasTimedCompletion ==
    \E i \in 1..Len(recent) :
        /\ recent[i].status = "completed"
        /\ recent[i].started_at # NoTime
        /\ recent[i].completed_at > recent[i].started_at

\* e is chunks_ahead divided by total_chunks_processed / total_processing_time
IsChunksOverRate(e, chunks_ahead) ==
    /\ e # NoEstimate
    /\ e.den # 0
    /\ e.num * total_chunks_processed = chunks_ahead * total_processing_time * e.den

C21_ClearRecentStep ==
    clear_recent =>
        /\ clear_recent_result = Len(recent)
        /\ recent' = <<>>
        /\ get_status'.recent = <<>>
        /\ UNCHANGED <<jobs, queue, active, total_chunks_processed, total_processing_time>>

\* C21: clear_recent returns the number of entries recent held before the
\* call and leaves recent empty, so that the next get_status shows an empty
\* recent list; the live map, the queue, the active set and the two
\* accumulators stay as they are.
C21_ClearRecentFrame == [][C21_ClearRecentStep]_vars

\* C21 witness: recent is empty although a started job was completed (the
\* accumulator still counts its chunks), so it was cleared; a job is active
\* and another one waits.
C21_Witness ==
    /\ recent = <<>>
    /\ total_chunks_processed > 0
    /\ active # {}
    /\ \E j \in Registered : Waiting(j)

\* a register step and the response POST /jobs builds from the state it
\* leaves
C22_RegisterStep ==
    \A j \in IdInputs, c \in TotalChunksInputs :
        (j = NewJobId /\ register(c)) =>
            /\ register_job_response(j)'.job_id = j
            /\ IF Cardinality(active) < max_workers
               THEN /\ register_job_response(j)'.status = "active"
                    /\ register_job_response(j)'.position = 0
               ELSE /\ register_job_response(j)'.status = "queued"
                    /\ register_job_response(j)'.position >= 1
                    /\ register_job_response(j)'.position =
                           1 + Cardinality({k \in Registered : Waiting(k)})

\* C22: the response to POST /jobs agrees with the state the registration
\* leaves: status active and position 0 if fewer than max_workers jobs were
\* active when the job was registered, otherwise status queued and a
\* position >= 1 that is the rank of the job among the waiting jobs (one
\* more than the number of jobs that waited before it was registered); and
\* in no state that another operation can produce do status and position
\* of a live job disagree.
C22_ResponseConsistent ==
    /\ [](\A j \in DOMAIN jobs :
             /\ jobs[j].status = "active" <=> get_position(j) = 0
             /\ jobs[j].status = "queued" <=> get_position(j) >= 1)
    /\ [][C22_RegisterStep]_vars

\* a register step draws an id that no earlier register call returned: the
\* id is not live, not in the queue, not in recent and was never terminated
C23_RegisterStep ==
    \A job_id \in UuidInputs, c \in TotalChunksInputs :
        register_drawn(job_id, c) =>
            /\ job_id \notin DOMAIN jobs
            /\ job_id \notin QueueIds
            /\ job_id \notin active
            /\ job_id \notin RecentIds
            /\ term_ok[job_id] = 0

\* C23: register allocates a fresh unique id: the id a register call returns
\* differs from the id of every earlier register call, so a registration
\* never replaces a live job and the queue never holds an id twice.
C23_FreshIds ==
    /\ [](\A i, k \in 1..Len(queue) : queue[i] = queue[k] => i = k)
    /\ [][C23_RegisterStep]_vars

\* embed requests suspended in gpu_lock.acquire
WaitingRequests == {r \in Requests : pc[r] = "waiting"}

Accumulators == <<total_chunks_processed, total_processing_time>>

\* a step changes the accumulators only if it is a complete of a started
\* job, and then by the job's total_chunks and by its running time; a fail
\* step files the job with the current it had
C25_AccumulatorStep ==
    /\ \/ UNCHANGED Accumulators
       \/ \E j \in DOMAIN jobs :
              /\ jobs[j].started_at # NoTime
              /\ complete(j)
              /\ total_chunks_processed' = total_chunks_processed + jobs[j].total_chunks
              /\ total_processing_time' = total_processing_time + (now - jobs[j].started_at)
              /\ recent'[1].completed_at = now
    /\ \A j \in DOMAIN jobs :
           /\ (jobs[j].started_at # NoTime /\ complete(j)) =>
                  /\ total_chunks_processed' = total_chunks_processed + jobs[j].total_chunks
                  /\ total_processing_time' =
                         total_processing_time + (recent'[1].completed_at - jobs[j].started_at)
           /\ (jobs[j].started_at = NoTime /\ complete(j)) => UNCHANGED Accumulators
           /\ \A e \in ErrorInputs :
                  fail(j, e) => /\ UNCHANGED Accumulators
                                /\ recent'[1].id = j
                                /\ recent'[1].current = jobs[j].current

\* C25: total_chunks_processed and total_processing_time change only in a
\* complete of a job that had been started, where they grow by the job's
\* total_chunks and by completed_at - started_at; fail, cancel,
\* update_progress, register, clear_recent and a complete of a job that was
\* never started leave them as they are, and fail leaves the current of the
\* job as it is.
C25_AccumulatorsFrame == [][C25_AccumulatorStep]_vars

\* C25 witness: a job ran for one reading of the clock and was completed,
\* and a job that had reported current = 2 failed and kept it.
C25_Witness ==
    /\ total_chunks_processed = 1
    /\ total_processing_time = 1
    /\ \E i \in 1..Len(recent) : recent[i].status = "failed" /\ recent[i].current = 2

\* the record of job j, in the live map or in recent
Known(j) == j \in DOMAIN jobs \/ j \in RecentIds
JobRecord(j) ==
    IF j \in DOMAIN jobs THEN jobs[j]
    ELSE recent[CHOOSE i \in 1..Len(recent) : recent[i].id = j]

\* a step stamps started_at with the clock exactly when it activates the
\* job, stamps completed_at with the clock exactly when it moves the job to
\* recent, and changes neither stamp once it is set
C26_StampStep ==
    \A j \in Registered :
        (Known(j) /\ Known(j)') =>
            /\ JobRecord(j).started_at # NoTime =>
                   JobRecord(j)'.started_at = JobRecord(j).started_at
            /\ JobRecord(j).completed_at # NoTime =>
                   JobRecord(j)'.completed_at = JobRecord(j).completed_at
            /\ (j \notin active /\ j \in active') <=>
                   (JobRecord(j).started_at = NoTime /\ JobRecord(j)'.started_at # NoTime)
            /\ (j \notin active /\ j \in active') => JobRecord(j)'.started_at = now
            /\ (j \in DOMAIN jobs /\ j \in RecentIds') <=>
                   (JobRecord(j).completed_at = NoTime /\ JobRecord(j)'.completed_at # NoTime)
            /\ (j \in DOMAIN jobs /\ j \in RecentIds') => JobRecord(j)'.completed_at = now

\* C26: started_at is set exactly once, when the job is activated, and
\* completed_at exactly once, when the job is completed or failed: no later
\* operation changes a stamp that is set, a live job has started_at set
\* exactly if it is active, and completed_at is set exactly for the jobs in
\* recent.
C26_StampedOnce ==
    /\ [](/\ \A j \in DOMAIN jobs :
                /\ jobs[j].started_at # NoTime <=> j \in active
                /\ jobs[j].completed_at = NoTime
          /\ \A i \in 1..Len(recent) :
                /\ recent[i].completed_at # NoTime
                /\ recent[i].started_at # NoTime => recent[i].started_at <= recent[i].completed_at)
    /\ [][C26_StampStep]_vars

\* C26 witness: the first job was activated at reading 0 and completed at
\* reading 1, and the second job was activated by that completion, at
\* reading 1.
C26_Witness ==
    /\ \E i \in 1..Len(recent) :
           recent[i].id = 1 /\ recent[i].started_at = 0 /\ recent[i].completed_at = 1
    /\ 2 \in active
    /\ jobs[2].created_at = 0
    /\ jobs[2].started_at = 1

\* the sum of f over the ids in S
RECURSIVE SumOver(_, _)
SumOver(f, S) ==
    IF S = {} THEN 0
    ELSE LET x == CHOOSE y \in S : TRUE IN f[x] + SumOver(f, S \ {x})

\* the work ahead of the waiting job j: what is left of the active jobs and
\* the whole of the jobs that wait and were registered before j
WorkAhead(j) ==
    SumOver([a \in DOMAIN jobs |-> jobs[a].total_chunks - jobs[a].current],
            {a \in DOMAIN jobs : jobs[a].status = "active"})
    + SumOver([k \in DOMAIN jobs |-> jobs[k].total_chunks],
              {k \in DOMAIN jobs : Waiting(k) /\ k < j})

\* C27: in every get_status snapshot the queued list holds each job with
\* status queued once, in registration order; its chunks_ahead is the sum
\* of total_chunks - current over the active jobs plus the sum of
\* total_chunks over the queued jobs ranked before it, and its position is
\* what get_position returns for its id in the same state.
C27_SnapshotChunksAhead ==
    LET queued == get_status.queued
    IN  /\ {queued[i].job.id : i \in 1..Len(queued)} = {j \in DOMAIN jobs : Waiting(j)}
        /\ \A i, k \in 1..Len(queued) : i < k => queued[i].job.id < queued[k].job.id
        /\ \A i \in 1..Len(queued) :
               /\ queued[i].job.status = "queued"
               /\ queued[i].chunks_ahead = WorkAhead(queued[i].job.id)
               /\ queued[i].position = get_position(queued[i].job.id)
               /\ queued[i].position >= 1

\* C27 witness: with one worker the active job has reported current = 1 of
\* its 3 chunks and two jobs wait, the first of 3 chunks: 2 chunks are ahead
\* of the first and 5 of the second.
C27_Witness ==
    /\ max_workers = 1
    /\ \E a \in active : jobs[a].current = 1 /\ jobs[a].total_chunks = 3
    /\ Len(get_status.queued) = 2
    /\ get_status.queued[1].chunks_ahead = 2
    /\ get_status.queued[2].chunks_ahead = 5
    /\ get_status.queued[2].position = 2

\* j was cancelled: it left the live map without an entry in recent
Cancelled(j) == term_ok[j] >= 1 /\ j \notin DOMAIN jobs /\ j \notin RecentIds

\* C28: if every active job is eventually completed, failed or cancelled,
\* every job that is registered and not cancelled eventually becomes
\* active; no entry of the queue blocks the jobs behind it forever.
C28_AdmissionLive ==
    \A j \in CallIds : (j \in DOMAIN jobs) ~> (Activated(j) \/ Cancelled(j))

\* no entry of the queue blocks the jobs behind it: a job that waits with
\* status queued does not wait forever
C28_NoWaitForever == \A j \in CallIds : Waiting(j) ~> ~Waiting(j)

\* C29: provided every dispatched computation ends, with a result or an
\* exception, every embed call that passes validation eventually acquires
\* gpu_lock and returns, and gpu_lock is not held once no embed call is in
\* flight.
C29_GateLive ==
    /\ \A r \in Requests : (pc[r] = "waiting") ~> (pc[r] = "computing")
    /\ \A r \in Requests : (pc[r] # "idle") ~> (pc[r] = "idle")
    /\ [](InFlight = {} => ~gpu_locked /\ gpu_waiters = <<>>)

\* C29 witness: three calls have returned, two of them after waiting for
\* the lock; no call is in flight and the lock is free.
C29_Witness ==
    /\ stats.requests = 3
    /\ stats.queue_waits = 2
    /\ InFlight = {}
    /\ ~gpu_locked

\* C30: every id in the active set is a key of the live map whose job has
\* status active and started_at set, every job of the live map with status
\* active is in the active set, and every job in recent has status
\* completed or failed and is not a key of the live map.
C30_ActiveSetConsistent ==
    /\ \A j \in active :
           /\ j \in DOMAIN jobs
           /\ jobs[j].status = "active"
           /\ jobs[j].started_at # NoTime
           /\ jobs[j].id = j
    /\ \A j \in DOMAIN jobs : jobs[j].status = "active" => j \in active
    /\ \A i \in 1..Len(recent) :
           /\ recent[i].status \in {"completed", "failed"}
           /\ recent[i].id \notin DOMAIN jobs

\* C30 witness: two jobs are active on a two-worker queue while recent
\* holds a job that was completed.
C30_Witness ==
    /\ Cardinality(active) = 2
    /\ \E i \in 1..Len(recent) : recent[i].status = "completed"
    /\ \A j \in active : jobs[j].status = "active"

=============================================================================
